---- MODULE Spec2Model ----
(***************************************************************************)
(* Model of .ci/update_release.py: the release publisher of component-cli. *)
(* The script is one linear procedure: read three environment variables,   *)
(* split owner/name, read the VERSION file, resolve the GitHub             *)
(* configuration, look the release up by tag, glob the output directory    *)
(* for *.gz and upload every match as a release asset.                     *)
(*                                                                         *)
(* Strings are sequences of one-character strings.  An optional value is   *)
(* None (the empty sequence) or Some(v) (the one-element sequence).        *)
(***************************************************************************)
EXTENDS Integers, Sequences, FiniteSets, TLC

\* ---------------------------------------------------------------- bounds
\* longest value of SOURCE_GITHUB_REPO_OWNER_AND_NAME that is enumerated
MaxRepoLen == 3
\* longest contents of the VERSION file that is enumerated
MaxVersionLen == 2
\* number of changes other processes make to the output directory in a run
MaxFsEvents == 1

None == <<>>
Some(v) == <<v>>
IsSome(o) == Len(o) = 1
Get(o) == o[1]

\* all sequences over S of length at most n
RECURSIVE SeqsUpTo(_, _)
SeqsUpTo(S, n) ==
    IF n = 0 THEN {<<>>}
    ELSE LET shorter == SeqsUpTo(S, n - 1)
         IN  shorter \cup {Append(s, c) : s \in {t \in shorter : Len(t) = n - 1}, c \in S}

\* the names of the environment variables the script reads
EnvNames == {"SOURCE_GITHUB_REPO_OWNER_AND_NAME", "MAIN_REPO_DIR", "OUT_PATH"}

RepoChars == {"o", "/"}
RepoValues == SeqsUpTo(RepoChars, MaxRepoLen)

VersionChars == {"v", "\n", "\r"}
VersionContents == SeqsUpTo(VersionChars, MaxVersionLen)

\* tags for which the repository on the hosting service has a release
ReleaseTags == {<<"v">>, <<"v", "\n">>}

\* -------------------------------------------------- the output directory
\* An entry is a path below OUT_PATH: depth 1 is an immediate child.
GZ == <<".", "g", "z">>
EntryA == [depth |-> 1, name |-> <<"a",".","t","a","r",".","g","z">>, kind |-> "file", content |-> "x"]
EntryB == [depth |-> 1, name |-> <<"b",".","g","z">>, kind |-> "file", content |-> "x"]
EntryC == [depth |-> 1, name |-> <<"c",".","t","x","t">>, kind |-> "file", content |-> "y"]
EntryD == [depth |-> 2, name |-> <<"d",".","g","z">>, kind |-> "file", content |-> "z"]
EntryE == [depth |-> 1, name |-> <<"e",".","g","z">>, kind |-> "dir", content |-> ""]
Entries == {EntryA, EntryB, EntryC, EntryD, EntryE}

\* ------------------------------------------------------- pure functions
\* str.split(sep): the pieces of s between the occurrences of sep
RECURSIVE split(_, _)
split(s, sep) ==
    IF \A i \in 1..Len(s) : s[i] # sep THEN <<s>>
    ELSE LET i == CHOOSE k \in 1..Len(s) : s[k] = sep /\ \A j \in 1..(k - 1) : s[j] # sep
         IN  <<SubSeq(s, 1, i - 1)>> \o split(SubSeq(s, i + 1, Len(s)), sep)

\* str.split(sep, 1): at most one split
split_maxsplit1(s, sep) ==
    IF \A i \in 1..Len(s) : s[i] # sep THEN <<s>>
    ELSE LET i == CHOOSE k \in 1..Len(s) : s[k] = sep /\ \A j \in 1..(k - 1) : s[j] # sep
         IN  <<SubSeq(s, 1, i - 1), SubSeq(s, i + 1, Len(s))>>

\* Path.read_text(): the file is opened in text mode with the default
\* newline=None, so "\r\n" and a lone "\r" are both read as "\n"
RECURSIVE read_text(_)
read_text(bytes) ==
    IF bytes = <<>> THEN <<>>
    ELSE IF bytes[1] = "\r"
         THEN IF Len(bytes) >= 2 /\ bytes[2] = "\n"
              THEN <<"\n">> \o read_text(SubSeq(bytes, 3, Len(bytes)))
              ELSE <<"\n">> \o read_text(Tail(bytes))
         ELSE <<bytes[1]>> \o read_text(Tail(bytes))

\* str.strip() applied to what read_text returns
RECURSIVE strip(_)
strip(s) ==
    IF s # <<>> /\ s[1] \in {"\n", "\r"} THEN strip(Tail(s))
    ELSE IF s # <<>> /\ s[Len(s)] \in {"\n", "\r"} THEN strip(SubSeq(s, 1, Len(s) - 1))
    ELSE s

read_text_stripped(bytes) == strip(read_text(bytes))

\* fnmatch of a name against the pattern "*.gz": any prefix, then ".gz"
fnmatch_star_gz(name) ==
    \E k \in 0..Len(name) : SubSeq(name, k + 1, Len(name)) = GZ

\* fnmatch of a name against the pattern "*"
fnmatch_star(name) == \E k \in 0..Len(name) : SubSeq(name, k + 1, Len(name)) = <<>>

\* Path.glob('*.gz'): the immediate children whose name matches
glob_all(d) == {e \in d : e.depth = 1 /\ fnmatch_star(e.name)}

glob(d) == {e \in d : e.depth = 1 /\ fnmatch_star_gz(e.name)}

\* every order in which the directory iteration may yield the set S
Orders(S) == {s \in [1..Cardinality(S) -> S] : \A i, j \in 1..Cardinality(S) : s[i] = s[j] => i = j}

\* the text of the progress line for a file
ProgressLine(out, e) == <<"Attaching file ", out \o <<"/">> \o e.name, " to the GitHub release">>

\* ------------------------------------------------------------------ state
VARIABLES
    environ,               \* os.environ: name -> None or Some(value)
    version_file,          \* the VERSION file under MAIN_REPO_DIR: None or Some(contents)
    dir,                   \* the entries now below OUT_PATH
    fs_events,             \* changes made to the directory by other processes
    pc,                    \* the statement the script executes next
    error,                 \* the uncaught exception that ended the run
    repo_owner_and_name, repo_dir, output_dir,
    repo_owner, repo_name,
    version_file_contents,
    github_cfg, github_repo_helper, gh_release,
    output_files,          \* list(output_path.glob('*.gz'))
    idx,                   \* position of the for loop in output_files
    output_file,           \* the loop variable
    asset,                 \* the file object passed to the upload call in progress
    open_handles,          \* entries with a file object that is not closed yet
    assets,                \* the assets attached to the release on the hosting service
    log,                   \* every call and print the script made, in order
    dir_at_glob            \* the directory as it was when glob enumerated it

vars == <<environ, version_file, dir, fs_events, pc, error, repo_owner_and_name,
          repo_dir, output_dir, repo_owner, repo_name, version_file_contents,
          github_cfg, github_repo_helper, gh_release, output_files, idx,
          output_file, asset, open_handles, assets, log, dir_at_glob>>

fsVars == <<environ, version_file, dir, fs_events>>
envVars == <<repo_owner_and_name, repo_dir, output_dir>>
splitVars == <<repo_owner, repo_name>>
apiVars == <<github_cfg, github_repo_helper, gh_release>>
loopVars == <<output_files, idx, output_file, asset, dir_at_glob>>

NoError == [at |-> "", exc |-> ""]
Event(op, arg, ok) == [op |-> op, arg |-> arg, ok |-> ok]

Running == pc \notin {"done", "failed"}

\* an uncaught exception: the interpreter prints the traceback and exits
Raise(exc) ==
    /\ error' = [at |-> pc, exc |-> exc]
    /\ pc' = "failed"

Init ==
    /\ environ \in {[n \in EnvNames |->
                        IF n = "SOURCE_GITHUB_REPO_OWNER_AND_NAME" THEN r
                        ELSE IF n = "MAIN_REPO_DIR" THEN m ELSE o] :
                     r \in {None} \cup {Some(v) : v \in RepoValues},
                     m \in {None, Some(<<"r">>)},
                     o \in {None, Some(<<"p">>)}}
    /\ version_file \in {None} \cup {Some(c) : c \in VersionContents}
    /\ dir \in SUBSET Entries
    /\ fs_events = 0
    /\ pc = "env_repo"
    /\ error = NoError
    /\ repo_owner_and_name = None
    /\ repo_dir = None
    /\ output_dir = None
    /\ repo_owner = None
    /\ repo_name = None
    /\ version_file_contents = None
    /\ github_cfg = None
    /\ github_repo_helper = None
    /\ gh_release = None
    /\ output_files = <<>>
    /\ idx = 0
    /\ output_file = None
    /\ asset = None
    /\ open_handles = {}
    /\ assets = <<>>
    /\ log = <<>>
    /\ dir_at_glob = None

\* util.check_env(name): the value of the variable, or a failure when unset
check_env(name) == environ[name]

\* line 11
CheckEnvRepo ==
    /\ pc = "env_repo"
    /\ IF IsSome(check_env("SOURCE_GITHUB_REPO_OWNER_AND_NAME"))
       THEN /\ repo_owner_and_name' = check_env("SOURCE_GITHUB_REPO_OWNER_AND_NAME")
            /\ pc' = "env_repo_dir"
            /\ UNCHANGED error
       ELSE /\ Raise("ConfigurationError")
            /\ UNCHANGED repo_owner_and_name
    /\ UNCHANGED <<fsVars, repo_dir, output_dir, splitVars, version_file_contents,
                   apiVars, loopVars, open_handles, assets, log>>

\* line 12
CheckEnvRepoDir ==
    /\ pc = "env_repo_dir"
    /\ IF IsSome(check_env("MAIN_REPO_DIR"))
       THEN /\ repo_dir' = check_env("MAIN_REPO_DIR")
            /\ pc' = "env_out"
            /\ UNCHANGED error
       ELSE /\ Raise("ConfigurationError")
            /\ UNCHANGED repo_dir
    /\ UNCHANGED <<fsVars, repo_owner_and_name, output_dir, splitVars,
                   version_file_contents, apiVars, loopVars, open_handles, assets, log>>

\* os.environ.get in place of check_env: an unset variable is not noticed
CheckEnvOutPath_unchecked ==
    /\ pc = "env_out"
    /\ output_dir' = check_env("OUT_PATH")
    /\ pc' = "split"
    /\ UNCHANGED <<fsVars, repo_owner_and_name, repo_dir, splitVars, error,
                   version_file_contents, apiVars, loopVars, open_handles, assets, log>>

\* line 13
CheckEnvOutPath ==
    /\ pc = "env_out"
    /\ IF IsSome(check_env("OUT_PATH"))
       THEN /\ output_dir' = check_env("OUT_PATH")
            /\ pc' = "split"
            /\ UNCHANGED error
       ELSE /\ Raise("ConfigurationError")
            /\ UNCHANGED output_dir
    /\ UNCHANGED <<fsVars, repo_owner_and_name, repo_dir, splitVars,
                   version_file_contents, apiVars, loopVars, open_handles, assets, log>>

\* repo_owner_and_name.split('/', 1): extra separators stay in the name
SplitOwnerAndName_maxsplit ==
    /\ pc = "split"
    /\ LET parts == split_maxsplit1(Get(repo_owner_and_name), "/")
       IN  IF Len(parts) = 2
           THEN /\ repo_owner' = Some(parts[1])
                /\ repo_name' = Some(parts[2])
                /\ pc' = "read_version"
                /\ UNCHANGED error
           ELSE /\ Raise("ValueError")
                /\ UNCHANGED splitVars
    /\ UNCHANGED <<fsVars, envVars, version_file_contents, apiVars, loopVars,
                   open_handles, assets, log>>

\* line 15: unpacking into two names raises ValueError unless split yields two parts
SplitOwnerAndName ==
    /\ pc = "split"
    /\ LET parts == split(Get(repo_owner_and_name), "/")
       IN  IF Len(parts) = 2
           THEN /\ repo_owner' = Some(parts[1])
                /\ repo_name' = Some(parts[2])
                /\ pc' = "read_version"
                /\ UNCHANGED error
           ELSE /\ Raise("ValueError")
                /\ UNCHANGED splitVars
    /\ UNCHANGED <<fsVars, envVars, version_file_contents, apiVars, loopVars,
                   open_handles, assets, log>>

\* read_text().strip() in place of read_text()
ReadVersion_stripped ==
    /\ pc = "read_version"
    /\ IF IsSome(version_file)
       THEN /\ version_file_contents' = Some(read_text_stripped(Get(version_file)))
            /\ pc' = "cfg"
            /\ UNCHANGED error
       ELSE /\ Raise("FileNotFoundError")
            /\ UNCHANGED version_file_contents
    /\ UNCHANGED <<fsVars, envVars, splitVars, apiVars, loopVars, open_handles, assets, log>>

\* lines 17-20
ReadVersion ==
    /\ pc = "read_version"
    /\ IF IsSome(version_file)
       THEN /\ version_file_contents' = Some(read_text(Get(version_file)))
            /\ pc' = "cfg"
            /\ UNCHANGED error
       ELSE /\ Raise("FileNotFoundError")
            /\ UNCHANGED version_file_contents
    /\ UNCHANGED <<fsVars, envVars, splitVars, apiVars, loopVars, open_handles, assets, log>>

\* lines 22-23
ResolveCfg ==
    /\ pc = "cfg"
    /\ github_cfg' = Some("github_com")
    /\ pc' = "helper"
    /\ UNCHANGED <<fsVars, envVars, splitVars, version_file_contents, error,
                   github_repo_helper, gh_release, loopVars, open_handles, assets, log>>

\* lines 25-29
ConstructHelper ==
    /\ pc = "helper"
    /\ github_repo_helper' = Some([owner |-> Get(repo_owner), name |-> Get(repo_name),
                                   github_cfg |-> Get(github_cfg)])
    /\ pc' = "release"
    /\ UNCHANGED <<fsVars, envVars, splitVars, version_file_contents, error,
                   github_cfg, gh_release, loopVars, open_handles, assets, log>>

\* the hosting API's "find release by tag": the release handle, or no release
release_from_tag(tag) == IF tag \in ReleaseTags THEN Some(tag) ELSE None

\* the lookup wrapped in try/except: a missing release is not noticed
ReleaseFromTag_swallowed ==
    /\ pc = "release"
    /\ LET tag == Get(version_file_contents)
       IN  /\ log' = Append(log, Event("release_from_tag", tag, IsSome(release_from_tag(tag))))
           /\ gh_release' = release_from_tag(tag)
           /\ pc' = "glob"
           /\ UNCHANGED error
    /\ UNCHANGED <<fsVars, envVars, splitVars, version_file_contents, github_cfg,
                   github_repo_helper, loopVars, open_handles, assets>>

\* line 31: the lookup of the release by tag; no release for the tag is an
\* error of the hosting API that the script does not catch
ReleaseFromTag ==
    /\ pc = "release"
    /\ LET tag == Get(version_file_contents)
       IN  /\ log' = Append(log, Event("release_from_tag", tag, IsSome(release_from_tag(tag))))
           /\ IF IsSome(release_from_tag(tag))
              THEN /\ gh_release' = release_from_tag(tag)
                   /\ pc' = "glob"
                   /\ UNCHANGED error
              ELSE /\ Raise("ReleaseNotFoundError")
                   /\ UNCHANGED gh_release
    /\ UNCHANGED <<fsVars, envVars, splitVars, version_file_contents, github_cfg,
                   github_repo_helper, loopVars, open_handles, assets>>

\* lines 33-34: the matches, in the order the directory iteration yields them
GlobOutputFiles ==
    /\ pc = "glob"
    /\ \E order \in Orders(glob(dir)) : output_files' = order
    /\ dir_at_glob' = Some(dir)
    /\ log' = Append(log, Event("glob", dir, TRUE))
    /\ idx' = 0
    /\ pc' = "for"
    /\ UNCHANGED <<fsVars, envVars, splitVars, version_file_contents, apiVars, error,
                   output_file, asset, open_handles, assets>>

\* the loop head with the directory scanned again at every iteration
ForNext_rescan ==
    /\ pc = "for"
    /\ LET seen == {output_files[i] : i \in 1..Len(output_files)}
       IN  \E more \in Orders(glob(dir) \ seen) :
               /\ output_files' = output_files \o more
               /\ IF idx < Len(output_files \o more)
                  THEN /\ idx' = idx + 1
                       /\ output_file' = Some((output_files \o more)[idx + 1])
                       /\ pc' = "print"
                  ELSE /\ pc' = "done"
                       /\ UNCHANGED <<idx, output_file>>
    /\ UNCHANGED <<fsVars, envVars, splitVars, version_file_contents, apiVars, error,
                   asset, dir_at_glob, open_handles, assets, log>>

\* the loop head with the progress line left out
ForNext_silent ==
    /\ pc = "for"
    /\ IF idx < Len(output_files)
       THEN /\ idx' = idx + 1
            /\ output_file' = Some(output_files[idx + 1])
            /\ pc' = "open"
       ELSE /\ pc' = "done"
            /\ UNCHANGED <<idx, output_file>>
    /\ UNCHANGED <<fsVars, envVars, splitVars, version_file_contents, apiVars, error,
                   output_files, asset, dir_at_glob, open_handles, assets, log>>

\* the loop head with an empty list treated as an error
ForNext_empty_fails ==
    /\ pc = "for"
    /\ IF idx < Len(output_files)
       THEN /\ idx' = idx + 1
            /\ output_file' = Some(output_files[idx + 1])
            /\ pc' = "print"
            /\ UNCHANGED error
       ELSE IF output_files = <<>>
            THEN /\ Raise("FileNotFoundError")
                 /\ UNCHANGED <<idx, output_file>>
            ELSE /\ pc' = "done"
                 /\ UNCHANGED <<idx, output_file, error>>
    /\ UNCHANGED <<fsVars, envVars, splitVars, version_file_contents, apiVars,
                   output_files, asset, dir_at_glob, open_handles, assets, log>>

\* line 35: the next element of the list, or the end of the script
ForNext ==
    /\ pc = "for"
    /\ IF idx < Len(output_files)
       THEN /\ idx' = idx + 1
            /\ output_file' = Some(output_files[idx + 1])
            /\ pc' = "print"
       ELSE /\ pc' = "done"
            /\ UNCHANGED <<idx, output_file>>
    /\ UNCHANGED <<fsVars, envVars, splitVars, version_file_contents, apiVars, error,
                   output_files, asset, dir_at_glob, open_handles, assets, log>>

\* line 36
PrintProgress ==
    /\ pc = "print"
    /\ log' = Append(log, Event("print", ProgressLine(Get(output_dir), Get(output_file)), TRUE))
    /\ pc' = "open"
    /\ UNCHANGED <<fsVars, envVars, splitVars, version_file_contents, apiVars, error,
                   loopVars, open_handles, assets>>

\* line 40: the arguments of the call are evaluated before the call is made;
\* open() fails on a path that is gone or that is a directory
OpenAsset ==
    /\ pc = "open"
    /\ LET e == Get(output_file)
           ok == e \in dir /\ e.kind = "file"
       IN  /\ log' = Append(log, Event("open", e, ok))
           /\ IF ok
              THEN /\ asset' = Some(e)
                   /\ open_handles' = open_handles \cup {e}
                   /\ pc' = "upload"
                   /\ UNCHANGED error
              ELSE /\ Raise(IF e \in dir THEN "IsADirectoryError" ELSE "FileNotFoundError")
                   /\ UNCHANGED <<asset, open_handles>>
    /\ UNCHANGED <<fsVars, envVars, splitVars, version_file_contents, apiVars,
                   output_files, idx, output_file, dir_at_glob, assets>>

\* the record of an upload_asset call
UploadCall(e) == [content_type |-> "application/gzip", name |-> e.name, asset |-> e]

\* the upload in a try/except that goes on with the next file
UploadAsset_continue ==
    /\ pc = "upload"
    /\ \E ok \in BOOLEAN :
        /\ log' = Append(log, Event("upload_asset", UploadCall(Get(output_file)), ok))
        /\ assets' = IF ok
                     THEN Append(assets, [name |-> Get(output_file).name,
                                          content_type |-> "application/gzip",
                                          content |-> Get(asset).content])
                     ELSE assets
    /\ asset' = None
    /\ pc' = "for"
    /\ UNCHANGED <<fsVars, envVars, splitVars, version_file_contents, apiVars, error,
                   output_files, idx, output_file, dir_at_glob, open_handles>>

\* lines 37-41: the call; the hosting service accepts the asset or the call
\* raises.  The file object is not closed: after the call nothing refers to it.
UploadAsset ==
    /\ pc = "upload"
    /\ \E ok \in BOOLEAN :
        /\ log' = Append(log, Event("upload_asset", UploadCall(Get(output_file)), ok))
        /\ IF ok
           THEN /\ assets' = Append(assets, [name |-> Get(output_file).name,
                                             content_type |-> "application/gzip",
                                             content |-> Get(asset).content])
                /\ asset' = None
                /\ pc' = "for"
                /\ UNCHANGED error
           ELSE /\ Raise("UploadError")
                /\ UNCHANGED <<assets, asset>>
    /\ UNCHANGED <<fsVars, envVars, splitVars, version_file_contents, apiVars,
                   output_files, idx, output_file, dir_at_glob, open_handles>>

\* A file object that nothing refers to is closed when the garbage collector
\* finalizes it; when that happens is up to the interpreter.
Finalize ==
    /\ \E e \in open_handles :
        /\ asset # Some(e)
        /\ open_handles' = open_handles \ {e}
    /\ UNCHANGED <<fsVars, pc, error, envVars, splitVars, version_file_contents,
                   apiVars, loopVars, assets, log>>

\* another process creates an entry below OUT_PATH while the script runs
FsCreate ==
    /\ Running
    /\ fs_events < MaxFsEvents
    /\ \E e \in Entries \ dir : dir' = dir \cup {e}
    /\ fs_events' = fs_events + 1
    /\ UNCHANGED <<environ, version_file, pc, error, envVars, splitVars,
                   version_file_contents, apiVars, loopVars, open_handles, assets, log>>

\* another process removes an entry below OUT_PATH while the script runs
FsRemove ==
    /\ Running
    /\ fs_events < MaxFsEvents
    /\ \E e \in dir : dir' = dir \ {e}
    /\ fs_events' = fs_events + 1
    /\ UNCHANGED <<environ, version_file, pc, error, envVars, splitVars,
                   version_file_contents, apiVars, loopVars, open_handles, assets, log>>

Next ==
    \/ CheckEnvRepo
    \/ CheckEnvRepoDir
    \/ CheckEnvOutPath
    \/ SplitOwnerAndName
    \/ ReadVersion
    \/ ResolveCfg
    \/ ConstructHelper
    \/ ReleaseFromTag
    \/ GlobOutputFiles
    \/ ForNext
    \/ PrintProgress
    \/ OpenAsset
    \/ UploadAsset
    \/ Finalize
    \/ FsCreate
    \/ FsRemove

Spec == Init /\ [][Next]_vars

\* ----------------------------------------------------------------- claims
\* positions in the log of the events of one kind
Idx(op) == {i \in 1..Len(log) : log[i].op = op}
Lookups == Idx("release_from_tag")
Globs == Idx("glob")
Prints == Idx("print")
Opens == Idx("open")
Uploads == Idx("upload_asset")

EndsInGz(name) ==
    /\ Len(name) >= 3
    /\ name[Len(name) - 2] = "."
    /\ name[Len(name) - 1] = "g"
    /\ name[Len(name)] = "z"

\* the immediate children of OUT_PATH named *.gz when the directory was enumerated
Discovered == {e \in Get(dir_at_glob) : e.depth = 1 /\ EndsInGz(e.name)}

EnvSteps == {"env_repo", "env_repo_dir", "env_out"}

\* C1: a run that completes made exactly one upload call per immediate child
\* of OUT_PATH named *.gz, with the entry's base name and content type
\* application/gzip; an entry not named *.gz is never opened or uploaded.
C1_ExactlyGzUploaded ==
    /\ \A i \in Opens : log[i].arg.depth = 1 /\ EndsInGz(log[i].arg.name)
    /\ \A i \in Uploads : log[i].arg.asset.depth = 1 /\ EndsInGz(log[i].arg.asset.name)
    /\ pc = "done" =>
         /\ Cardinality(Uploads) = Cardinality(Discovered)
         /\ {log[i].arg : i \in Uploads} =
                {[content_type |-> "application/gzip", name |-> e.name, asset |-> e] :
                    e \in Discovered}
         /\ \A i \in Uploads : log[i].ok
         /\ {a.name : a \in {assets[k] : k \in 1..Len(assets)}} = {e.name : e \in Discovered}

C1_Witness ==
    /\ pc = "done"
    /\ {EntryA, EntryB, EntryC} \subseteq Get(dir_at_glob)
    /\ Cardinality(Uploads) = 2
    /\ \A i \in Opens : log[i].arg # EntryC

\* C2: when the lookup finds no release for the tag, the run has failed at the
\* lookup with ReleaseNotFoundError and no upload call is ever made.
C2_NoReleaseNoUpload ==
    \A i \in Lookups :
        log[i].arg \notin ReleaseTags =>
            /\ pc = "failed"
            /\ error = [at |-> "release", exc |-> "ReleaseNotFoundError"]
            /\ i = Len(log)
            /\ Uploads = {}
            /\ assets = <<>>

C2_Witness ==
    /\ pc = "failed"
    /\ error.exc = "ReleaseNotFoundError"
    /\ {EntryA, EntryB} \subseteq dir
    /\ Uploads = {}

IsGoodUpload(ev) == ev.op = "upload_asset" /\ ev.ok

\* C3: a failed upload is the last thing the run did: the run has failed, no
\* print, open or upload follows it, and the release holds exactly the assets
\* of the uploads that succeeded before it.
C3_SequentialAbort ==
    /\ \A i \in Uploads :
        ~log[i].ok =>
            /\ i = Len(log)
            /\ pc = "failed"
            /\ error = [at |-> "upload", exc |-> "UploadError"]
    /\ LET good == SelectSeq(log, IsGoodUpload)
       IN  /\ Len(assets) = Len(good)
           /\ \A k \in 1..Len(good) :
                /\ assets[k].name = good[k].arg.name
                /\ assets[k].content = good[k].arg.asset.content

C3_Witness ==
    /\ pc = "failed"
    /\ error.at = "upload"
    /\ idx = 2
    /\ Len(output_files) = 3
    /\ Len(assets) = 1
    /\ Cardinality(Uploads) = 2

\* C4: with no entry named *.gz directly under OUT_PATH the run does not fail
\* after the enumeration: it ends with one release lookup, no upload call and
\* no progress line.
C4_NoMatchesNoOp ==
    (IsSome(dir_at_glob) /\ Discovered = {}) =>
        /\ pc \in {"for", "done"}
        /\ error = NoError
        /\ Cardinality(Lookups) = 1
        /\ Uploads = {}
        /\ Prints = {}
        /\ Opens = {}

C4_Witness ==
    /\ pc = "done"
    /\ Discovered = {}
    /\ EntryC \in Get(dir_at_glob)
    /\ Cardinality(Lookups) = 1

CountSep(s) == Cardinality({i \in 1..Len(s) : s[i] = "/"})
WellFormed(s) == CountSep(s) = 1 /\ s[1] # "/" /\ s[Len(s)] # "/"
\* the split statement has been executed
SplitDone == pc \notin (EnvSteps \cup {"split"}) /\ error.at \notin EnvSteps

\* C5: a well-formed owner/name value is split into its two non-empty
\* components; a value with no separator or with more than one fails at the
\* split, before the VERSION file is read and before any call to the hosting API.
C5_OwnerNameSplit ==
    SplitDone =>
        LET v == Get(repo_owner_and_name)
        IN  /\ WellFormed(v) =>
                /\ error.at # "split"
                /\ IsSome(repo_owner) /\ IsSome(repo_name)
                /\ Get(repo_owner) # <<>> /\ Get(repo_name) # <<>>
                /\ Get(repo_owner) \o <<"/">> \o Get(repo_name) = v
            /\ CountSep(v) # 1 =>
                /\ pc = "failed"
                /\ error.at = "split"
                /\ repo_owner = None /\ repo_name = None
                /\ version_file_contents = None
                /\ github_cfg = None /\ github_repo_helper = None
                /\ log = <<>>

C5_Witness ==
    /\ pc = "failed"
    /\ error.at = "split"
    /\ CountSep(Get(repo_owner_and_name)) = 2
    /\ IsSome(version_file)

\* C6: with one of the three environment variables unset the run never gets
\* past the three reads: it fails there, the VERSION file is not read, the
\* configuration is not resolved and no call is made; and all three variables
\* have been read before any later statement has run.
C6_FailFastOnMissingEnv ==
    /\ (\E n \in EnvNames : environ[n] = None) =>
        /\ pc \in EnvSteps \cup {"failed"}
        /\ pc = "failed" => error.at \in EnvSteps
        /\ repo_owner = None
        /\ version_file_contents = None
        /\ github_cfg = None
        /\ log = <<>>
    /\ (pc \notin EnvSteps /\ error.at \notin EnvSteps) =>
        /\ repo_owner_and_name = environ["SOURCE_GITHUB_REPO_OWNER_AND_NAME"]
        /\ repo_dir = environ["MAIN_REPO_DIR"]
        /\ output_dir = environ["OUT_PATH"]
        /\ \A n \in EnvNames : IsSome(environ[n])

C6_Witness ==
    /\ pc = "failed"
    /\ error.at = "env_out"
    /\ environ["OUT_PATH"] = None
    /\ IsSome(environ["SOURCE_GITHUB_REPO_OWNER_AND_NAME"])
    /\ IsSome(version_file)

\* C7 as stated: the tag of the lookup is the contents of the VERSION file,
\* unchanged, for every contents.
C7_TagIsFileContents ==
    \A i \in Lookups : log[i].arg = Get(version_file)

\* positions of the contents that survive newline translation: all but a
\* carriage return that a line feed follows
Kept(c) == {i \in 1..Len(c) : ~(c[i] = "\r" /\ i < Len(c) /\ c[i + 1] = "\n")}
KthKept(c, k) == CHOOSE i \in Kept(c) : Cardinality({j \in Kept(c) : j <= i}) = k

\* C7 amended: the tag of the lookup is the contents of the VERSION file with
\* every "\r\n" and every other "\r" replaced by "\n" and nothing else
\* changed: nothing is trimmed, so contents without "\r" are the tag as is.
C7_TagIsFileText ==
    \A i \in Lookups :
        LET c == Get(version_file)
            t == log[i].arg
        IN  /\ Len(t) = Cardinality(Kept(c))
            /\ \A k \in 1..Len(t) :
                 t[k] = IF c[KthKept(c, k)] = "\r" THEN "\n" ELSE c[KthKept(c, k)]
            /\ (\A j \in 1..Len(c) : c[j] # "\r") => t = c

C7_Witness ==
    /\ Lookups # {}
    /\ version_file = Some(<<"v", "\n">>)
    /\ \E i \in Lookups : log[i].arg = <<"v", "\n">>

C9_ScopedHandles ==
    /\ Cardinality(open_handles) <= 1
    /\ pc = "upload" => open_handles = {Get(asset)}
    /\ pc = "done" => open_handles = {}

====
